---- MODULE Spec2Model ----
(***************************************************************************)
(* A model of archfinn/core/engine.py: ArchState (topology, events, logs, *)
(* tick, seeded generator), eff_node, eval_prob and the run_scenario      *)
(* interpreter loop.                                                       *)
(*                                                                         *)
(* Python floats are modelled as exact fractions <<n, d>> (d > 0).  Every  *)
(* value used is a dyadic fraction of small magnitude, for which IEEE      *)
(* double arithmetic (product, 1.0 - x, <, min, max) is exact.             *)
(* Python values that may have any type (branch values, labels, the       *)
(* current step id) are modelled as records [ty, s, items].                *)
(***************************************************************************)
EXTENDS Integers, Sequences, FiniteSets, TLC

VARIABLES
    nodes,      \* ArchState.nodes: node id -> node object
    edges,      \* ArchState.edges
    controls,   \* ArchState.controls: control id -> control table
    events,     \* ArchState.events
    logs,       \* ArchState.logs
    tick,       \* ArchState.tick
    rng,        \* ArchState.rng: how many values this generator has produced
    stream,     \* the values Random(1337) produces, as far as they are known
    scenario,   \* the Scenario given to run_scenario
    pc,         \* "idle" | "loop" | "returned" | "raised"
    current,    \* run_scenario's local `current`
    iteration,  \* loop iterations of `for iteration in range(max_steps)` begun
    ret,        \* the record run_scenario returned
    exc,        \* the exception type run_scenario raised, "" if none
    entry,      \* the ArchState as it was when run_scenario was called
    hist,       \* what the current call has done so far (steps, draws)
    calls,      \* calls of run_scenario so far
    fresh,      \* the current call runs on a freshly constructed ArchState
    prev,       \* the outcome of the first call (on the first fresh ArchState)
    query,      \* the arguments of a direct call of eff_node or eval_prob
    answer      \* what that call returned

vars == <<nodes, edges, controls, events, logs, tick, rng, stream, scenario,
          pc, current, iteration, ret, exc, entry, hist, calls, fresh, prev,
          query, answer>>

(***************************************************************************)
(* Bounds of the model.                                                    *)
(***************************************************************************)
MaxSteps == 3   \* timeline max_steps ranges over 0..MaxSteps
MaxCalls == 2   \* calls of run_scenario in one behaviour
Precision == 4  \* significant bits of a float (53 in CPython)

(***************************************************************************)
(* Fractions.                                                              *)
(***************************************************************************)
Zero == <<0, 1>>
One == <<1, 1>>
Half == <<1, 2>>
Quarter == <<1, 4>>

RMul(a, b) == <<a[1] * b[1], a[2] * b[2]>>
RSub(a, b) == <<a[1] * b[2] - b[1] * a[2], a[2] * b[2]>>
RLt(a, b) == a[1] * b[2] < b[1] * a[2]
REq(a, b) == a[1] * b[2] = b[1] * a[2]
RLe(a, b) == a[1] * b[2] <= b[1] * a[2]
RMin(a, b) == IF RLt(b, a) THEN b ELSE a
RMax(a, b) == IF RLt(a, b) THEN b ELSE a

(***************************************************************************)
(* Floats.  A float is a fraction with at most Precision significant bits; *)
(* an arithmetic operation returns the float nearest to the exact result,  *)
(* a tie going to the one with an even last bit.                           *)
(***************************************************************************)
RECURSIVE Pow2(_)
Pow2(k) == IF k = 0 THEN 1 ELSE 2 * Pow2(k - 1)

\* the integer nearest to n/d, a tie going to the even one
NearestEven(n, d) ==
    LET q == n \div d
        r == n - q * d
    IN  IF 2 * r < d THEN q
        ELSE IF 2 * r > d THEN q + 1
        ELSE IF q % 2 = 0 THEN q ELSE q + 1

\* the fraction n/d in lowest terms of 2
RECURSIVE Lowest(_, _)
Lowest(n, d) ==
    IF n # 0 /\ n % 2 = 0 /\ d % 2 = 0 THEN Lowest(n \div 2, d \div 2) ELSE <<n, d>>

\* 2^Precision: a float's significand is an integer in [Top/2, Top)
Top == Pow2(Precision)

\* the float nearest to (n/d) * (up/down), n/d > 0: scale n/d into
\* [Top/2, Top), round it to an integer and scale back
RECURSIVE RoundPos(_, _, _, _)
RoundPos(n, d, up, down) ==
    IF n >= d * Top THEN RoundPos(n, 2 * d, 2 * up, down)
    ELSE IF 2 * n < d * Top THEN RoundPos(2 * n, d, up, 2 * down)
    ELSE Lowest(NearestEven(n, d) * up, down)

\* the denominators 2^k
Dyadic == { Pow2(k) : k \in 0..30 }

\* the float nearest to the fraction x; a fraction n/2^k with |n| < Top is a
\* float already
Round(x) ==
    IF x[1] = 0 THEN Zero
    ELSE IF -Top < x[1] /\ x[1] < Top /\ x[2] \in Dyadic THEN x
    ELSE IF x[1] < 0
    THEN RSub(Zero, RoundPos(-x[1], x[2], 1, 1))
    ELSE RoundPos(x[1], x[2], 1, 1)

\* a * b and a - b on floats
FMul(a, b) == Round(RMul(a, b))
FSub(a, b) == Round(RSub(a, b))

(***************************************************************************)
(* Python values of any type.                                              *)
(***************************************************************************)
PyStr(x) == [ty |-> "str", s |-> x, items |-> <<>>]
PyInt(x) == [ty |-> "int", s |-> x, items |-> <<>>]
PyTuple(xs) == [ty |-> "tuple", s |-> "", items |-> xs]
PyList(xs) == [ty |-> "list", s |-> "", items |-> xs]
None == [ty |-> "none", s |-> "", items |-> <<>>]

\* bool(v)
Truthy(v) ==
    CASE v.ty = "none" -> FALSE
      [] v.ty = "str" -> v.s # ""
      [] v.ty = "int" -> v.s # "0"
      [] OTHER -> Len(v.items) > 0

\* str(v), as an f-string renders it
Repr(v) == v.s

\* dict.get(key, default)
Get(d, key, default) == IF key \in DOMAIN d THEN d[key] ELSE default

\* the empty dict {}
EmptyDict == [k \in {} |-> Zero]

(***************************************************************************)
(* ArchState.eff_node (lines 23-32).  A node object is a record            *)
(* [hasControls, controls]: hasControls is hasattr(node, 'controls').      *)
(***************************************************************************)
\* line 30: self.controls.get(ctrl, {}).get("effectiveness", {}).get(kind, 0.0)
ControlEff(ctrl, kind) ==
    Get(Get(Get(controls, ctrl, EmptyDict), "effectiveness", EmptyDict), kind, Zero)

\* lines 28-31: prod after the first i rounds of the loop over node.controls
RECURSIVE MissProduct(_, _, _)
MissProduct(cs, kind, i) ==
    IF i = 0 THEN One
    ELSE FMul(MissProduct(cs, kind, i - 1), FSub(One, ControlEff(cs[i], kind)))

eff_node_Product(node_id, kind) ==
    IF node_id \notin DOMAIN nodes \/ ~nodes[node_id].hasControls THEN Zero
    ELSE MissProduct(nodes[node_id].controls, kind, Len(nodes[node_id].controls))

eff_node(node_id, kind) ==
    IF node_id \notin DOMAIN nodes \/ ~nodes[node_id].hasControls THEN Zero
    ELSE FSub(One, MissProduct(nodes[node_id].controls, kind,
                               Len(nodes[node_id].controls)))

(***************************************************************************)
(* eval_prob (lines 34-44).  target = "" stands for a falsy target (None   *)
(* or the empty string), path = <<>> for a falsy path (None or empty).     *)
(***************************************************************************)
\* lines 37-39: p_block after the first i rounds of the loop over path
RECURSIVE PathProduct(_, _, _)
PathProduct(path, kind, i) ==
    IF i = 0 THEN One
    ELSE FMul(PathProduct(path, kind, i - 1), FSub(One, eff_node(path[i], kind)))

PBlock(kind, target, path) ==
    IF Len(path) > 0 THEN PathProduct(path, kind, Len(path))
    ELSE IF target # "" THEN eff_node(target, kind)
    ELSE Zero

eval_prob(kind, target, path, base_p, context) ==
    RMax(Zero, RMin(One, FMul(FMul(base_p, FSub(One, PBlock(kind, target, path))), context)))

(***************************************************************************)
(* Formatting.                                                             *)
(***************************************************************************)
DigitChar(d) == <<"0", "1", "2", "3", "4", "5", "6", "7", "8", "9">>[d + 1]

RECURSIVE Digits(_)
Digits(n) == IF n < 10 THEN <<DigitChar(n)>> ELSE Digits(n \div 10) \o <<DigitChar(n % 10)>>

\* f"{n:02d}": at least two characters, zero-padded, the sign included
Fmt02d(n) ==
    IF n < 0 THEN <<"-">> \o Digits(-n)
    ELSE IF n < 10 THEN <<"0">> \o Digits(n)
    ELSE Digits(n)

\* f"{p:.2f}" for p >= 0, in hundredths; a tie rounds to the even neighbour
Fmt2f(p) ==
    LET q == (100 * p[1]) \div p[2]
        r == 100 * p[1] - q * p[2]
    IN  IF 2 * r < p[2] THEN q
        ELSE IF 2 * r > p[2] THEN q + 1
        ELSE IF q % 2 = 0 THEN q ELSE q + 1

\* str.upper() on the labels in use
Upper(x) ==
    CASE x = "win" -> "WIN"
      [] x = "lose" -> "LOSE"
      [] x = "s1" -> "S1"
      [] x = "s2" -> "S2"
      [] OTHER -> x

(***************************************************************************)
(* ArchState.log (lines 18-21).  A log line is a record: stamp is the      *)
(* characters between "[t=" and "]" (<<>> for a line with no prefix), tag  *)
(* names the message and a1, a2, a3, num, ok are the values formatted      *)
(* into it.                                                                *)
(***************************************************************************)
Msg(tag, a1, a2, a3, num, ok) ==
    [tag |-> tag, a1 |-> a1, a2 |-> a2, a3 |-> a3, num |-> num, ok |-> ok]

Line(stamp, m) ==
    [stamp |-> stamp, tag |-> m.tag, a1 |-> m.a1, a2 |-> m.a2, a3 |-> m.a3,
     num |-> m.num, ok |-> m.ok]

\* state.log(msg) with the tick at t: the logs after the call
Log(lg, t, m) == Append(lg, Line(Fmt02d(t), m))

(***************************************************************************)
(* Inputs: the topologies, steps and scenarios a behaviour starts from.    *)
(***************************************************************************)
Node(cs) == [hasControls |-> TRUE, controls |-> cs]
Control(eff) == [effectiveness |-> eff]

Topologies ==
    { [nodes |-> [open  |-> Node(<<>>),
                  fw    |-> Node(<<"c_half">>),
                  dmz   |-> Node(<<"c_half", "c_quarter">>),
                  vault |-> Node(<<"c_full">>),
                  odd   |-> Node(<<"c_smb", "c_gone", "c_raw">>),
                  bare  |-> [hasControls |-> FALSE, controls |-> <<>>]],
       edges |-> <<<<"open", "fw">>, <<"fw", "vault">>>>,
       controls |-> [c_half    |-> Control([rce |-> Half]),
                     c_quarter |-> Control([rce |-> Quarter, smb |-> Half]),
                     c_full    |-> Control([rce |-> One]),
                     c_smb     |-> Control([smb |-> Half]),
                     c_raw     |-> EmptyDict]],
      [nodes |-> [open |-> Node(<<>>), fw |-> Node(<<>>)],
       edges |-> <<>>,
       controls |-> EmptyDict] }

Goto(l) == PyTuple(<<PyStr("goto"), PyStr(l)>>)
End(l) == PyTuple(<<PyStr("end"), PyStr(l)>>)
\* the key is not in the step's params
Absent == [ty |-> "absent", s |-> "", items |-> <<>>]

WellFormed == {Goto("s1"), Goto("s2"), Goto("nowhere"), End("win"), End("lose")}

Malformed ==
    { Absent, None, PyStr("s2"), PyTuple(<<>>),
      PyList(<<PyStr("goto"), PyStr("s2")>>),
      PyTuple(<<PyStr("goto"), PyStr("s2"), PyStr("x")>>),
      PyTuple(<<PyStr("jump"), PyStr("s2")>>),
      PyTuple(<<PyStr("end"), PyInt("5")>>),
      PyTuple(<<PyStr("goto"), PyInt("7")>>) }

\* <<on_success, on_fail>> (exploit, move_lateral), <<on_detect, on_success>> (exfiltrate)
BranchPairs ==
    { <<x, x>> : x \in WellFormed \cup Malformed } \cup
    { <<Goto("s2"), End("lose")>>, <<End("win"), Goto("s1")>>,
      <<Absent, Goto("s1")>>, <<Goto("s1"), Absent>>,
      <<End("win"), Goto("nowhere")>> }

FewPairs ==
    { <<Goto("s1"), Goto("s1")>>, <<Goto("s2"), End("lose")>>,
      <<End("win"), Goto("nowhere")>>, <<Absent, Absent>>,
      <<Goto("s1"), Absent>>, <<End("win"), Goto("s2")>>,
      <<PyTuple(<<PyStr("goto"), PyStr("s2"), PyStr("x")>>), End("lose")>>,
      <<PyTuple(<<PyStr("end"), PyInt("5")>>), PyTuple(<<PyStr("jump"), PyStr("s2")>>)>> }

SetKey(d, key, v) == IF v = Absent THEN d ELSE (key :> v) @@ d

Exploit(target, kind, base, pair) ==
    [action |-> "exploit",
     params |-> SetKey(SetKey([target |-> target, type |-> kind, base_success |-> base],
                              "on_success", pair[1]), "on_fail", pair[2])]

Lateral(from, to, kind, base, pair) ==
    [action |-> "move_lateral",
     params |-> SetKey(SetKey([from |-> from, to |-> to, type |-> kind,
                               base_success |-> base],
                              "on_success", pair[1]), "on_fail", pair[2])]

Exfil(detect, volume, pair) ==
    [action |-> "exfiltrate",
     params |-> SetKey(SetKey([detect_prob |-> detect, data_volume |-> volume],
                              "on_detect", pair[1]), "on_success", pair[2])]

Bodies ==
    { Exploit("fw", "rce", One, pr) : pr \in BranchPairs } \cup
    { Exploit(t, "rce", b, <<End("win"), End("lose")>>) :
        t \in {"open", "dmz", "vault", "ghost", "bare"}, b \in {Half, One} } \cup
    { Exploit("odd", "smb", One, <<End("win"), Goto("s1")>>),
      [action |-> "exploit",
       params |-> [on_success |-> Goto("s1"), on_fail |-> End("lose")]] } \cup
    { Lateral("fw", "open", "rce", One, pr) : pr \in FewPairs } \cup
    { Lateral(pth[1], pth[2], "rce", b, <<End("win"), End("lose")>>) :
        pth \in {<<"open", "open">>, <<"open", "ghost">>, <<"vault", "fw">>,
                 <<"fw", "dmz">>, <<"fw", "fw">>},
        b \in {Half, One} } \cup
    { [action |-> "move_lateral",
       params |-> [on_success |-> End("win"), on_fail |-> Goto("s1")]] } \cup
    { Exfil(Half, 10, pr) : pr \in FewPairs \cup {<<End("win"), End("lose")>>} } \cup
    { Exfil(dp, 250, pr) :
        dp \in {Zero, One},
        pr \in {<<End("win"), Goto("s1")>>, <<Goto("s1"), End("lose")>>} } \cup
    { [action |-> "exfiltrate", params |-> [on_success |-> Goto("s1")]],
      [action |-> "backdoor", params |-> EmptyDict],
      [action |-> "backdoor",
       params |-> [target |-> "fw", on_success |-> Goto("s1"), on_fail |-> End("lose")]],
      [action |-> "scan",
       params |-> [on_success |-> PyTuple(<<PyStr("end"), PyInt("5")>>)]] }

\* the bodies a second step may have
TailBodies ==
    { Exploit("fw", "rce", One, <<Goto("s1"), End("lose")>>),
      Exploit("fw", "rce", One, <<Goto("s2"), Goto("s2")>>),
      Lateral("fw", "open", "rce", One, <<End("win"), Goto("s2")>>),
      Exfil(Half, 10, <<End("win"), Goto("s1")>>),
      Exfil(One, 10, <<Goto("s1"), End("lose")>>),
      [action |-> "backdoor", params |-> EmptyDict] }

Step(id, body) == [id |-> id, action |-> body.action, params |-> body.params]

BranchKeys == {"on_success", "on_fail", "on_detect"}

\* the bodies with a branch that names step l
Naming(l) ==
    { b \in Bodies : \E k \in BranchKeys \cap DOMAIN b.params : b.params[k] = Goto(l) }

\* no step, one step, two steps of which the first names the second, and two
\* steps with the same id
StepLists ==
    {<<>>} \cup
    { <<Step("s1", b)>> : b \in Bodies } \cup
    { <<Step("s1", b), Step("s2", c)>> : b \in Naming("s2"), c \in TailBodies } \cup
    { <<Step("s1", b), Step("s1", c)>> :
        b \in {Exploit("fw", "rce", One, <<Goto("s1"), End("lose")>>),
               [action |-> "backdoor", params |-> EmptyDict]},
        c \in TailBodies }

Scenarios ==
    { [name |-> "demo", steps |-> st, timeline |-> [max_steps |-> n]] :
        st \in StepLists, n \in 0..MaxSteps }

\* the values rng.random() may return, all in [0, 1)
Draws == {Zero, Half}

(***************************************************************************)
(* ArchState construction (lines 8-16).                                    *)
(***************************************************************************)
\* field(default_factory=list), tick: int = 0
FreshList == <<>>
FreshTick == 0
\* one generator shared by every ArchState (a class-level default)
FreshRng_Shared(r) == r

\* field(default_factory=lambda: random.Random(1337)): a new generator at the
\* start of the seed's stream, given the position r of the generator before it
FreshRng(r) == 0

\* no direct call of eff_node or eval_prob is under way
NoQuery ==
    [fn |-> "", node_id |-> "", kind |-> "", target |-> "", path |-> <<>>,
     base_p |-> Zero, context |-> One]
NoAnswer == [known |-> FALSE, value |-> Zero]

NoRet == [result |-> "", logs |-> <<>>, events |-> <<>>]
NoHist == [steps |-> 0, draws |-> 0, trail |-> <<>>]

Snapshot ==
    [nodes |-> nodes, edges |-> edges, controls |-> controls, events |-> events,
     logs |-> logs, tick |-> tick, rng |-> rng]

Outcome == [pc |-> pc, exc |-> exc, ret |-> ret]

Init ==
    /\ \E topo \in Topologies :
         /\ nodes = topo.nodes
         /\ edges = topo.edges
         /\ controls = topo.controls
    /\ scenario \in Scenarios
    /\ events = FreshList
    /\ logs = FreshList
    /\ tick = FreshTick
    /\ rng = FreshRng(0)
    /\ stream = <<>>
    /\ pc = "idle"
    /\ current = None
    /\ iteration = 0
    /\ ret = NoRet
    /\ exc = ""
    /\ entry = Snapshot
    /\ hist = NoHist
    /\ calls = 0
    /\ fresh = TRUE
    /\ prev = [pc |-> "idle", exc |-> "", ret |-> NoRet]
    /\ query = NoQuery
    /\ answer = NoAnswer

(***************************************************************************)
(* run_scenario (lines 46-161).                                            *)
(***************************************************************************)
DefaultMaxSteps == 20

\* line 53
max_steps == Get(scenario.timeline, "max_steps", DefaultMaxSteps)

\* line 51: steps = {s.id: s for s in scenario.steps}; a later step with the
\* same id replaces an earlier one.  StepIndex is the position in
\* scenario.steps of the step the dict holds for key cur, 0 if it holds none.
StepIndex(cur) ==
    LET hits == { i \in 1..Len(scenario.steps) :
                    cur.ty = "str" /\ scenario.steps[i].id = cur.s }
    IN  IF hits = {} THEN 0 ELSE CHOOSE i \in hits : \A j \in hits : j <= i

\* as if line 30 read self.controls.setdefault(ctrl, {}): a control id that is
\* listed on a node but missing from the mapping gains an empty entry
TopologyUnchanged_SetDefault ==
    /\ controls' = IF "c_gone" \in DOMAIN controls \/ "odd" \notin DOMAIN nodes
                   THEN controls
                   ELSE [c \in DOMAIN controls \cup {"c_gone"} |->
                           IF c = "c_gone" THEN EmptyDict ELSE controls[c]]
    /\ UNCHANGED <<nodes, edges>>

\* no line of run_scenario, eff_node or eval_prob assigns to, or calls a
\* mutating method of, state.nodes, state.edges or state.controls
TopologyUnchanged == UNCHANGED <<nodes, edges, controls>>

\* lines 160-161: the logs after the final log line
BudgetLog(lg, t) == Log(lg, t, Msg("max_steps_reached", "", "", "", max_steps, FALSE))

\* lines 48-58 with the no-steps line written through state.log
Call_LogsNoSteps ==
    /\ pc = "idle"
    /\ calls' = calls + 1
    /\ entry' = Snapshot
    /\ hist' = NoHist
    /\ exc' = ""
    /\ TopologyUnchanged
    /\ UNCHANGED <<query, answer>>
    /\ UNCHANGED <<events, tick, rng, stream, scenario, fresh, prev>>
    /\ IF Len(scenario.steps) = 0
       THEN /\ pc' = "returned"
            /\ logs' = Log(logs, tick, Msg("no_steps_found", "", "", "", 0, FALSE))
            /\ ret' = [result |-> "no_steps", logs |-> logs', events |-> <<>>]
            /\ UNCHANGED <<current, iteration>>
       ELSE /\ current' = PyStr(scenario.steps[1].id)
            /\ logs' = Log(Log(Log(logs,
                         tick, Msg("running", scenario.name, "", "", 0, FALSE)),
                         tick, Msg("timeline", "", "", "", max_steps, FALSE)),
                         tick, Msg("starting", scenario.steps[1].id, "", "", 0, FALSE))
            /\ iteration' = 0
            /\ pc' = "loop"
            /\ ret' = NoRet

\* lines 48-58
Call ==
    /\ pc = "idle"
    /\ calls' = calls + 1
    /\ entry' = Snapshot
    /\ hist' = NoHist
    /\ exc' = ""
    /\ TopologyUnchanged
    /\ UNCHANGED <<query, answer>>
    /\ UNCHANGED <<events, tick, rng, stream, scenario, fresh, prev>>
    /\ IF Len(scenario.steps) = 0
       THEN /\ pc' = "returned"
            /\ ret' = [result |-> "no_steps",
                       logs |-> <<Line(<<>>, Msg("no_steps_found", "", "", "", 0, FALSE))>>,
                       events |-> <<>>]
            /\ UNCHANGED <<logs, current, iteration>>
       ELSE /\ current' = PyStr(scenario.steps[1].id)
            /\ logs' = Log(Log(Log(logs,
                         tick, Msg("running", scenario.name, "", "", 0, FALSE)),
                         tick, Msg("timeline", "", "", "", max_steps, FALSE)),
                         tick, Msg("starting", scenario.steps[1].id, "", "", 0, FALSE))
            /\ iteration' = 0
            /\ pc' = "loop"
            /\ ret' = NoRet

\* the loop head without the range(max_steps) bound
AtStep_Unbounded == pc = "loop"

\* the loop is at its head with an iteration left
AtStep == pc = "loop" /\ iteration < max_steps

\* line 63 left out
NotFoundLog_Missing(lg, t) == lg

\* line 63: the logs after the diagnostic
NotFoundLog(lg, t) == Log(lg, t, Msg("step_not_found", Repr(current), "", "", 0, FALSE))

\* lines 77, 100, 125: the actions the dispatch knows
Recognised == {"exploit", "move_lateral", "exfiltrate"}

\* the budget label returned for an unknown action
UnknownResult_Budget == "max_steps"

\* line 154
UnknownResult == "unknown_action"

\* line 60 with range(max_steps) used up, then lines 160-161
Exhausted ==
    /\ pc = "loop"
    /\ ~(iteration < max_steps)
    /\ logs' = BudgetLog(logs, tick)
    /\ pc' = "returned"
    /\ ret' = [result |-> "max_steps", logs |-> logs', events |-> events]
    /\ TopologyUnchanged
    /\ UNCHANGED <<query, answer>>
    /\ UNCHANGED <<events, tick, rng, stream, scenario, current, iteration, exc, entry,
                   hist, calls, fresh, prev>>

\* lines 61-64, then lines 160-161
StepNotFound ==
    /\ AtStep
    /\ StepIndex(current) = 0
    /\ logs' = BudgetLog(NotFoundLog(logs, tick), tick)
    /\ pc' = "returned"
    /\ ret' = [result |-> "max_steps", logs |-> logs', events |-> events]
    /\ TopologyUnchanged
    /\ UNCHANGED <<query, answer>>
    /\ UNCHANGED <<events, tick, rng, stream, scenario, current, iteration, exc, entry,
                   hist, calls, fresh, prev>>

\* the step the loop resolves at line 61
TheStep == scenario.steps[StepIndex(current)]

\* state.rng.random() returning d: the next value of the seed's stream
Random(d) ==
    /\ d \in Draws
    /\ rng < Len(stream) => d = stream[rng + 1]
    /\ stream' = IF rng < Len(stream) THEN stream ELSE Append(stream, d)
    /\ rng' = rng + 1

\* a `continue` in place of lines 157-158
NoJump_Continue(next_val) == [kind |-> "goto", label |-> current, exc |-> ""]

\* no jump is taken: the iteration runs on to lines 157-158
NoJump(next_val) == [kind |-> "fall", label |-> None, exc |-> ""]

\* `<=` in place of `<`
Below_OrEqual(d, p) == RLe(d, p)

\* lines 83, 108, 129: rng.random() < p
Below(d, p) == RLt(d, p)

\* `state.events = ["ALERT.EXFIL"]`
DetectEvents_Reset(ev) == <<"ALERT.EXFIL">>

\* line 132
DetectEvents(ev) == Append(ev, "ALERT.EXFIL")

\* lines 135-139 with the goto case of lines 145-147 added
DetectHonoursGoto_Both == TRUE

\* lines 135-139: the detected branch tests for "end" only
DetectHonoursGoto == FALSE

\* lines 91-98 (also 116-123, 143-150) and, with honoursGoto false, lines 135-139:
\* what the selected branch value leads to
Jump(next_val, honoursGoto) ==
    IF ~(Truthy(next_val) /\ next_val.ty = "tuple")
    THEN NoJump(next_val)
    ELSE IF Len(next_val.items) # 2
    THEN [kind |-> "raise", label |-> None, exc |-> "ValueError"]
    ELSE LET jump_type == next_val.items[1]
             label == next_val.items[2]
         IN  IF honoursGoto /\ jump_type = PyStr("goto")
             THEN [kind |-> "goto", label |-> label, exc |-> ""]
             ELSE IF jump_type = PyStr("end")
             THEN IF label.ty = "str"
                  THEN [kind |-> "end", label |-> label, exc |-> ""]
                  ELSE [kind |-> "raise", label |-> None, exc |-> "AttributeError"]
             ELSE NoJump(next_val)

\* `state.tick += 2`
NextTick_Double(t) == t + 2

\* the tick after line 66
NextTick(t) == t + 1

\* line 70 moved above line 66
ExecLog_Before(lg, t) ==
    Log(lg, t - 1, Msg("executing", TheStep.id, TheStep.action, "", 0, FALSE))

\* line 70
ExecLog(lg, t) == Log(lg, t, Msg("executing", TheStep.id, TheStep.action, "", 0, FALSE))

\* the rest of an iteration once the branch value is selected: continue (goto),
\* return (end), raise, or lines 157-161
Finish(t, lg, ev, j) ==
    /\ tick' = t
    /\ events' = ev
    /\ CASE j.kind = "goto" ->
              /\ logs' = lg
              /\ current' = j.label
              /\ iteration' = iteration + 1
              /\ UNCHANGED <<pc, ret, exc>>
         [] j.kind = "end" ->
              /\ logs' = Log(lg, t, Msg("end", Upper(j.label.s), "", "", 0, FALSE))
              /\ pc' = "returned"
              /\ ret' = [result |-> j.label.s, logs |-> logs', events |-> ev]
              /\ UNCHANGED <<current, iteration, exc>>
         [] j.kind = "raise" ->
              /\ logs' = lg
              /\ pc' = "raised"
              /\ exc' = j.exc
              /\ UNCHANGED <<current, iteration, ret>>
         [] OTHER ->
              /\ logs' = BudgetLog(Log(lg, t, Msg("no_valid_transition", "", "", "", 0, FALSE)), t)
              /\ pc' = "returned"
              /\ ret' = [result |-> "max_steps", logs |-> logs', events |-> ev]
              /\ UNCHANGED <<current, iteration, exc>>

Record(drew, d, p, hit) ==
    [steps |-> hist.steps + 1,
     draws |-> hist.draws + (IF drew THEN 1 ELSE 0),
     trail |-> Append(hist.trail,
                      [idx |-> StepIndex(current), action |-> TheStep.action,
                       drew |-> drew, draw |-> d, p |-> p, hit |-> hit])]

Frame ==
    TopologyUnchanged /\ UNCHANGED <<scenario, entry, calls, fresh, prev, query, answer>>

\* lines 66-70, 77-98
StepExploit ==
    /\ AtStep
    /\ StepIndex(current) # 0
    /\ TheStep.action = "exploit"
    /\ \E d \in Draws :
         LET params == TheStep.params
             t == NextTick(tick)
             target == Get(params, "target", "unknown")
             exploit_type == Get(params, "type", "generic")
             base_success == Get(params, "base_success", Half)
             p == eval_prob(exploit_type, target, <<>>, base_success, One)
             success == Below(d, p)
             lg == Log(ExecLog(logs, t), t,
                       Msg("exploit", target, exploit_type, "", Fmt2f(p), success))
             next_key == IF success THEN "on_success" ELSE "on_fail"
             next_val == Get(params, next_key, None)
         IN  /\ Random(d)
             /\ Finish(t, lg, events, Jump(next_val, TRUE))
             /\ hist' = Record(TRUE, d, p, success)
    /\ Frame

\* lines 66-70, 100-123
StepLateral ==
    /\ AtStep
    /\ StepIndex(current) # 0
    /\ TheStep.action = "move_lateral"
    /\ \E d \in Draws :
         LET params == TheStep.params
             t == NextTick(tick)
             from_node == Get(params, "from", "unknown")
             to_node == Get(params, "to", "unknown")
             move_type == Get(params, "type", "generic")
             base_success == Get(params, "base_success", Half)
             path == <<from_node, to_node>>
             p == eval_prob(move_type, "", path, base_success, One)
             success == Below(d, p)
             lg == Log(ExecLog(logs, t), t,
                       Msg("lateral", from_node, to_node, move_type, Fmt2f(p), success))
             next_key == IF success THEN "on_success" ELSE "on_fail"
             next_val == Get(params, next_key, None)
         IN  /\ Random(d)
             /\ Finish(t, lg, events, Jump(next_val, TRUE))
             /\ hist' = Record(TRUE, d, p, success)
    /\ Frame

\* lines 66-70, 125-150
StepExfiltrate ==
    /\ AtStep
    /\ StepIndex(current) # 0
    /\ TheStep.action = "exfiltrate"
    /\ \E d \in Draws :
         LET params == TheStep.params
             t == NextTick(tick)
             detect_prob == Get(params, "detect_prob", Zero)
             data_volume == Get(params, "data_volume", 0)
             detected == Below(d, detect_prob)
         IN  /\ Random(d)
             /\ hist' = Record(TRUE, d, detect_prob, detected)
             /\ IF detected
                THEN Finish(t,
                            Log(ExecLog(logs, t), t,
                                Msg("exfil_detected", "", "", "", data_volume, TRUE)),
                            DetectEvents(events),
                            Jump(Get(params, "on_detect", None), DetectHonoursGoto))
                ELSE Finish(t,
                            Log(ExecLog(logs, t), t,
                                Msg("exfil_undetected", "", "", "", data_volume, FALSE)),
                            events,
                            Jump(Get(params, "on_success", None), TRUE))
    /\ Frame

\* lines 66-70, 152-154
StepUnknown ==
    /\ AtStep
    /\ StepIndex(current) # 0
    /\ TheStep.action \notin Recognised
    /\ tick' = NextTick(tick)
    /\ logs' = Log(ExecLog(logs, tick'), tick',
                   Msg("unknown_action", TheStep.action, "", "", 0, FALSE))
    /\ pc' = "returned"
    /\ ret' = [result |-> UnknownResult, logs |-> logs', events |-> events]
    /\ hist' = Record(FALSE, Zero, Zero, FALSE)
    /\ UNCHANGED <<events, rng, stream, current, iteration, exc>>
    /\ Frame

(***************************************************************************)
(* The caller: after a call ends it builds a new ArchState over the same   *)
(* topology and runs the scenario again, or runs it again on the state it  *)
(* has.                                                                    *)
(***************************************************************************)
Ended == pc \in {"returned", "raised"}

NewState ==
    /\ Ended
    /\ calls < MaxCalls
    /\ events' = FreshList
    /\ logs' = FreshList
    /\ tick' = FreshTick
    /\ rng' = FreshRng(rng)
    /\ fresh' = TRUE
    /\ pc' = "idle"
    /\ prev' = IF calls = 1 THEN Outcome ELSE prev
    /\ ret' = NoRet
    /\ exc' = ""
    /\ hist' = NoHist
    /\ TopologyUnchanged
    /\ UNCHANGED <<query, answer>>
    /\ UNCHANGED <<stream, scenario, current, iteration, entry, calls>>

Reuse ==
    /\ Ended
    /\ calls < MaxCalls
    /\ fresh' = FALSE
    /\ pc' = "idle"
    /\ prev' = IF calls = 1 THEN Outcome ELSE prev
    /\ ret' = NoRet
    /\ exc' = ""
    /\ hist' = NoHist
    /\ TopologyUnchanged
    /\ UNCHANGED <<query, answer>>
    /\ UNCHANGED <<events, logs, tick, rng, stream, scenario, current, iteration, entry,
                   calls>>

Next ==
    \/ Call
    \/ Exhausted
    \/ StepNotFound
    \/ StepExploit
    \/ StepLateral
    \/ StepExfiltrate
    \/ StepUnknown
    \/ NewState
    \/ Reuse

Spec == Init /\ [][Next]_vars

(***************************************************************************)
(* Properties.                                                             *)
(***************************************************************************)
\* the log lines the current call has appended to state.logs
NewLogs == SubSeq(logs, Len(entry.logs) + 1, Len(logs))

Logged(tag) == \E i \in DOMAIN NewLogs : NewLogs[i].tag = tag

\* the step a trail entry executed
StepOf(e) == scenario.steps[e.idx]

Clamp(x) == RMax(Zero, RMin(One, x))

\* C1: for a move_lateral step the probability used for the draw is
\* clamp(base_success * (1 - B)) with B = 1 - product over n in [from, to] of
\* (1 - combinedEffectiveness(n, type)).
C1_LateralProbability ==
    \A i \in DOMAIN hist.trail :
        LET e == hist.trail[i]
            ps == StepOf(e).params
            path == <<Get(ps, "from", "unknown"), Get(ps, "to", "unknown")>>
            kind == Get(ps, "type", "generic")
            B == RSub(One, RMul(RSub(One, eff_node(path[1], kind)),
                                RSub(One, eff_node(path[2], kind))))
        IN  e.action = "move_lateral" =>
                REq(e.p, Clamp(RMul(Get(ps, "base_success", Half), RSub(One, B))))

\* C2: every entry of the logs of a returned result record carries a [t=NN]
\* prefix, NN a tick value the run has had at or before the return.
C2_EveryLineStamped ==
    pc = "returned" =>
        \A i \in DOMAIN ret.logs :
            \E n \in 0..tick : ret.logs[i].stamp = Fmt02d(n)

\* the labels L of the (end, L) branches of the scenario's steps
EndLabels ==
    UNION { { st.params[k].items[2].s :
                k \in { x \in BranchKeys \cap DOMAIN st.params :
                          /\ st.params[x].ty = "tuple"
                          /\ Len(st.params[x].items) = 2
                          /\ st.params[x].items[1] = PyStr("end")
                          /\ st.params[x].items[2].ty = "str" } } :
            st \in { scenario.steps[i] : i \in DOMAIN scenario.steps } }

BudgetStep ==
    pc = "loop" =>
        \/ pc' \in {"returned", "raised"}
        \/ pc' = "loop" /\ iteration' = iteration + 1 /\ iteration' <= max_steps

\* C3: a call executes at most max_steps steps, every loop iteration either
\* ends the call or uses up one iteration of the budget, and a returned result
\* label is no_steps, unknown_action, max_steps or the label of an (end, L)
\* branch of a step of the scenario.
C3_BoundedAndLabelled ==
    /\ [](/\ hist.steps <= max_steps
          /\ tick - entry.tick <= max_steps
          /\ pc = "loop" => iteration = hist.steps
          /\ pc = "returned" =>
                 ret.result \in {"no_steps", "unknown_action", "max_steps"} \cup EndLabels)
    /\ [][BudgetStep]_vars

\* C3 witness: a call that used its whole budget and one that ended on a branch
C3_Witness ==
    /\ pc = "returned"
    /\ hist.steps = 2
    /\ ret.result = "lose"
    /\ max_steps = 2

\* the steps the dict of line 51 holds
DictSteps ==
    { scenario.steps[StepIndex(PyStr(scenario.steps[i].id))] : i \in DOMAIN scenario.steps }

\* the probability a step's draw is compared with
StepProb(st) ==
    CASE st.action = "exploit" ->
            eval_prob(Get(st.params, "type", "generic"), Get(st.params, "target", "unknown"),
                      <<>>, Get(st.params, "base_success", Half), One)
      [] st.action = "move_lateral" ->
            eval_prob(Get(st.params, "type", "generic"), "",
                      <<Get(st.params, "from", "unknown"), Get(st.params, "to", "unknown")>>,
                      Get(st.params, "base_success", Half), One)
      [] st.action = "exfiltrate" -> Get(st.params, "detect_prob", Zero)
      [] OTHER -> Zero

\* the branch key selected when the draw is below the probability (hit) or not
BranchKey(action, hit) ==
    IF action = "exfiltrate"
    THEN IF hit THEN "on_detect" ELSE "on_success"
    ELSE IF hit THEN "on_success" ELSE "on_fail"

\* the branch keys some draw in [0, 1) selects
Selectable(st) ==
    { BranchKey(st.action, h) :
        h \in { x \in BOOLEAN : IF x THEN RLt(Zero, StepProb(st))
                                     ELSE RLt(StepProb(st), One) } }

IsPair(v) == v.ty = "tuple" /\ Len(v.items) = 2

GotoExisting(v) == IsPair(v) /\ v.items[1] = PyStr("goto") /\ StepIndex(v.items[2]) # 0

\* every step is recognised and every branch a draw can select is a goto to an
\* existing step
ClosedGoto ==
    /\ Len(scenario.steps) > 0
    /\ \A st \in DictSteps :
          /\ st.action \in Recognised
          /\ \A k \in Selectable(st) : GotoExisting(Get(st.params, k, None))

\* no exfiltrate step can be detected
NoDetection ==
    \A st \in DictSteps : st.action = "exfiltrate" => ~RLt(Zero, StepProb(st))

FullBudget ==
    /\ pc = "returned"
    /\ hist.steps = max_steps
    /\ tick = max_steps
    /\ ret.result = "max_steps"

\* C4 as stated: with every selectable branch a goto to an existing recognised
\* step, a run on a fresh state executes exactly max_steps steps, ends with
\* tick = max_steps and returns max_steps.
C4_Original == (fresh /\ Ended /\ ClosedGoto) => FullBudget

\* C4 amended: the same, for scenarios in which no exfiltrate step can be
\* detected (a goto in on_detect is not followed).
C4_GotoLoopUsesBudget == (fresh /\ Ended /\ ClosedGoto /\ NoDetection) => FullBudget

C4_Witness ==
    /\ ClosedGoto /\ NoDetection /\ fresh /\ pc = "returned"
    /\ max_steps = 2
    /\ hist.steps = 2
    /\ \E i \in DOMAIN hist.trail : hist.trail[i].hit
    /\ \E i \in DOMAIN hist.trail : ~hist.trail[i].hit

\* C5: a run on a freshly constructed state ends as the first run on a fresh
\* state did: same result, logs and events (and same exception, if any).
C5_Deterministic == (Ended /\ fresh /\ calls >= 2) => Outcome = prev

C5_Witness ==
    /\ pc = "returned" /\ fresh /\ calls = 2
    /\ hist.draws = 2
    /\ Len(ret.events) = 1

TickStep ==
    pc \in {"idle", "loop"} =>
        tick' = tick + (IF AtStep /\ StepIndex(current) # 0 THEN 1 ELSE 0)

\* C6: during a call the tick grows by exactly 1 in a step that executes a
\* scenario step (the current id resolves, whatever the action) and is
\* unchanged in every other step of the call.
C6_TickPerStep == [][TickStep]_vars

C6_Witness ==
    /\ pc = "returned"
    /\ entry.tick > 0
    /\ hist.steps = 1
    /\ tick = entry.tick + 1
    /\ Logged("step_not_found")

\* the current id is not a step of the (non-empty) scenario
MissingCurrent == Len(scenario.steps) > 0 /\ StepIndex(current) = 0

\* C7 as stated: a run whose current id is not a step logs the diagnostic and
\* returns max_steps.
C7_Original ==
    (pc = "returned" /\ MissingCurrent) =>
        (Logged("step_not_found") /\ ret.result = "max_steps")

MissingStepStep ==
    (pc = "loop" /\ MissingCurrent) =>
        (pc' = "returned" /\ hist' = hist /\ tick' = tick /\ rng' = rng)

\* C7 amended: a run whose current id is not a step executes no further step
\* and returns max_steps; the diagnostic is logged exactly when an iteration of
\* the budget was left.
C7_MissingStepEnds ==
    /\ []((pc = "returned" /\ MissingCurrent) =>
             /\ ret.result = "max_steps"
             /\ Logged("step_not_found") <=> iteration < max_steps)
    /\ [][MissingStepStep]_vars

C7_Witness ==
    /\ pc = "returned" /\ MissingCurrent
    /\ hist.steps >= 1
    /\ Logged("step_not_found")

\* the branch value selected at a trail entry
Selected(e) == Get(StepOf(e).params, BranchKey(e.action, e.hit), None)

\* a (goto, label) pair, or an (end, label) pair with a string label
WellFormedPair(v) ==
    /\ IsPair(v)
    /\ \/ v.items[1] = PyStr("goto")
       \/ v.items[1] = PyStr("end") /\ v.items[2].ty = "str"

LastEntry == hist.trail[Len(hist.trail)]

EndsWithNoTransition ==
    /\ pc = "returned"
    /\ ret.result = "max_steps"
    /\ Len(NewLogs) >= 2
    /\ NewLogs[Len(NewLogs) - 1].tag = "no_valid_transition"
    /\ NewLogs[Len(NewLogs)].tag = "max_steps_reached"

\* C8: no call raises, and a call whose last step selected a branch value that
\* is absent or not a well-formed pair logs "no valid transition found" and
\* returns max_steps.
C8_NoException ==
    /\ pc # "raised"
    /\ \A i \in DOMAIN hist.trail :
          (hist.trail[i].drew /\ ~WellFormedPair(Selected(hist.trail[i]))) =>
              (i = Len(hist.trail) /\ EndsWithNoTransition)

\* C9: an exploit or move_lateral step whose selected parameter is missing is
\* the last step of the call, which logs "no valid transition found" and
\* returns max_steps with the rest of the budget unused.
C9_MissingBranchEnds ==
    \A i \in DOMAIN hist.trail :
        LET e == hist.trail[i]
        IN  (/\ e.action \in {"exploit", "move_lateral"}
             /\ BranchKey(e.action, e.hit) \notin DOMAIN StepOf(e).params) =>
                (/\ i = Len(hist.trail)
                 /\ EndsWithNoTransition
                 /\ tick = entry.tick + i)

C9_Witness ==
    /\ pc = "returned"
    /\ hist.steps = 1
    /\ max_steps >= 2
    /\ LastEntry.action = "exploit"
    /\ LastEntry.hit
    /\ "on_success" \notin DOMAIN StepOf(LastEntry).params
    /\ "on_fail" \in DOMAIN StepOf(LastEntry).params

UnknownActionStep ==
    (AtStep /\ StepIndex(current) # 0 /\ TheStep.action \notin Recognised) =>
        /\ pc' = "returned"
        /\ ret'.result = "unknown_action"
        /\ ret'.events = events
        /\ events' = events
        /\ rng' = rng /\ stream' = stream
        /\ hist'.steps = hist.steps + 1

\* C10: a step whose action is not exploit, move_lateral or exfiltrate makes
\* the call return unknown_action in that step, with no draw and no event.
C10_UnknownActionReturns == [][UnknownActionStep]_vars

C10_Witness ==
    /\ pc = "returned"
    /\ ret.result = "unknown_action"
    /\ hist.steps = 2
    /\ rng = entry.rng + 1
    /\ LastEntry.action = "backdoor"

(***************************************************************************)
(* run_scenario called with a scenario without steps, on an ArchState that *)
(* holds anything: ticks, log lines, events and generator positions left   *)
(* by earlier use.                                                         *)
(***************************************************************************)
UsedLogs == {<<>>, <<Line(Fmt02d(12), Msg("end", "WIN", "", "", 0, FALSE))>>}

InitNoSteps ==
    /\ \E topo \in Topologies :
         /\ nodes = topo.nodes
         /\ edges = topo.edges
         /\ controls = topo.controls
    /\ scenario \in { sc \in Scenarios : Len(sc.steps) = 0 }
    /\ events \in {<<>>, <<"ALERT.EXFIL">>, <<"ALERT.EXFIL", "ALERT.EXFIL">>}
    /\ logs \in UsedLogs
    /\ tick \in {0, 5, 12}
    /\ stream = <<Zero, Half>>
    /\ rng \in {0, 2}
    /\ pc = "idle"
    /\ current = None
    /\ iteration = 0
    /\ ret = NoRet
    /\ exc = ""
    /\ entry = Snapshot
    /\ hist = NoHist
    /\ calls = 0
    /\ fresh = FALSE
    /\ prev = [pc |-> "idle", exc |-> "", ret |-> NoRet]
    /\ query = NoQuery
    /\ answer = NoAnswer

NextNoSteps ==
    \/ Call
    \/ Reuse

SpecNoSteps == InitNoSteps /\ [][NextNoSteps]_vars

NoStepsCall ==
    (pc = "idle" /\ Len(scenario.steps) = 0) =>
        /\ pc' = "returned"
        /\ ret'.result = "no_steps"
        /\ ret'.events = <<>>
        /\ Len(ret'.logs) = 1
        /\ UNCHANGED <<tick, logs, events, rng, stream, nodes, edges, controls>>

\* C11: a call with a scenario without steps returns no_steps with no events
\* and exactly one log line, and leaves tick, logs, events, the generator and
\* the topology of the state as they were.
C11_NoStepsLeavesState == [][NoStepsCall]_vars

C11_Witness ==
    /\ pc = "returned"
    /\ ret.result = "no_steps"
    /\ tick = 12
    /\ Len(logs) = 1
    /\ Len(events) = 2
    /\ rng = 2
    /\ calls = 2

\* the loop is about to execute a step with this action
Executing(action) == AtStep /\ StepIndex(current) # 0 /\ TheStep.action = action

\* an (end, L) pair with a string label
IsEndPair(v) == IsPair(v) /\ v.items[1] = PyStr("end") /\ v.items[2].ty = "str"

ExfilCertainStep ==
    Executing("exfiltrate") =>
        LET dp == Get(TheStep.params, "detect_prob", Zero)
            od == Get(TheStep.params, "on_detect", None)
        IN  /\ REq(dp, One) =>
                 /\ events' = Append(events, "ALERT.EXFIL")
                 /\ IsEndPair(od) =>
                        /\ pc' = "returned"
                        /\ ret'.result = od.items[2].s
                        /\ ret'.events = events'
            /\ REq(dp, Zero) => events' = events

\* C12: an exfiltrate step with detect_prob = 1.0 appends ALERT.EXFIL whatever
\* the draw and, with on_detect = (end, L), returns L with the event in the
\* returned events; with detect_prob = 0.0 it appends nothing.
C12_CertainDetection == [][ExfilCertainStep]_vars

C12_Witness ==
    /\ pc = "returned"
    /\ hist.steps = 1
    /\ LastEntry.action = "exfiltrate"
    /\ REq(Get(StepOf(LastEntry).params, "detect_prob", Zero), One)
    /\ LastEntry.draw = Half
    /\ ret.result = "win"
    /\ ret.events = <<"ALERT.EXFIL">>

\* the trail entries at which an exfiltrate step's draw was below its detect_prob
Detections ==
    { i \in DOMAIN hist.trail :
        /\ hist.trail[i].action = "exfiltrate"
        /\ RLt(hist.trail[i].draw, Get(StepOf(hist.trail[i]).params, "detect_prob", Zero)) }

Alerts(n) == [i \in 1..n |-> "ALERT.EXFIL"]

\* the value the generator returns in this step
DrawnNow == stream'[rng + 1]

EventsStep ==
    pc = "loop" =>
        IF Executing("exfiltrate") /\
           RLt(DrawnNow, Get(TheStep.params, "detect_prob", Zero))
        THEN events' = Append(events, "ALERT.EXFIL")
        ELSE events' = events

\* C13: during a call events only grows, by one ALERT.EXFIL in each step that
\* executes an exfiltrate step with a draw below detect_prob and by nothing in
\* any other step; at every moment the events are those at the call followed
\* by one ALERT.EXFIL per such step.
C13_EventsAppendOnly ==
    /\ [](pc \in {"loop", "returned", "raised"} =>
            events = entry.events \o Alerts(Cardinality(Detections)))
    /\ [][pc = "idle" => events' = events]_vars
    /\ [][EventsStep]_vars

C13_Witness ==
    /\ pc = "returned"
    /\ Len(entry.events) = 1
    /\ Len(events) = 2
    /\ hist.steps = 2
    /\ Detections = {2}

(***************************************************************************)
(* Direct calls of eff_node on topologies built one control at a time.     *)
(***************************************************************************)
MaxControls == 2   \* controls attached to the node under test

\* a float whose complement 1 - e is not a float: 1/4 + 2^-(Precision+1)
TinyEff == <<Pow2(Precision - 1) + 1, Pow2(Precision + 1)>>

EffControls ==
    [c_zero    |-> Control([rce |-> Zero]),
     c_quarter |-> Control([rce |-> Quarter, smb |-> Half]),
     c_half    |-> Control([rce |-> Half]),
     c_full    |-> Control([rce |-> One]),
     c_tiny    |-> Control([rce |-> TinyEff]),
     c_smb     |-> Control([smb |-> Half]),
     c_raw     |-> EmptyDict]

\* the ids a node may list; c_gone is not in the controls mapping
ControlIds == DOMAIN EffControls \cup {"c_gone"}
Kinds == {"rce", "smb"}

EffNodes(cs) == [n |-> Node(cs), bare |-> [hasControls |-> FALSE, controls |-> <<>>]]

InitEff ==
    /\ \E cs \in {<<>>} \cup {<<c>> : c \in ControlIds} : nodes = EffNodes(cs)
    /\ edges = <<>>
    /\ controls = EffControls
    /\ scenario \in {sc \in Scenarios : Len(sc.steps) = 0}
    /\ events = FreshList
    /\ logs = FreshList
    /\ tick = FreshTick
    /\ rng = FreshRng(0)
    /\ stream = <<>>
    /\ pc = "idle"
    /\ current = None
    /\ iteration = 0
    /\ ret = NoRet
    /\ exc = ""
    /\ entry = Snapshot
    /\ hist = NoHist
    /\ calls = 0
    /\ fresh = TRUE
    /\ prev = [pc |-> "idle", exc |-> "", ret |-> NoRet]
    /\ query = NoQuery
    /\ answer = NoAnswer

\* the caller lists one more control on node n
AttachControl(c) ==
    /\ Len(nodes["n"].controls) < MaxControls
    /\ nodes' = EffNodes(Append(nodes["n"].controls, c))
    /\ query' = NoQuery
    /\ answer' = NoAnswer
    /\ UNCHANGED <<edges, controls, events, logs, tick, rng, stream, scenario,
                   pc, current, iteration, ret, exc, entry, hist, calls, fresh, prev>>

\* state.eff_node(node_id, kind)
EvalEff(node_id, kind) ==
    /\ query' = [NoQuery EXCEPT !.fn = "eff_node", !.node_id = node_id, !.kind = kind]
    /\ answer' = [known |-> TRUE, value |-> eff_node(node_id, kind)]
    /\ UNCHANGED <<nodes, edges, controls, events, logs, tick, rng, stream, scenario,
                   pc, current, iteration, ret, exc, entry, hist, calls, fresh, prev>>

NextEff ==
    \/ \E c \in ControlIds : AttachControl(c)
    \/ \E node_id \in {"n", "bare", "ghost"}, kind \in Kinds : EvalEff(node_id, kind)

SpecEff == InitEff /\ [][NextEff]_vars

\* eff_i: the control's effectiveness for the kind, 0.0 without an entry
EffOf(c, kind) ==
    IF c \notin DOMAIN controls THEN Zero
    ELSE IF "effectiveness" \notin DOMAIN controls[c] THEN Zero
    ELSE IF kind \notin DOMAIN controls[c].effectiveness THEN Zero
    ELSE controls[c].effectiveness[kind]

\* the controls of the queried node; <<>> when it is missing or has none
Attached ==
    IF query.node_id \in DOMAIN nodes /\ nodes[query.node_id].hasControls
    THEN nodes[query.node_id].controls ELSE <<>>

\* twice the spacing of the floats at 1.0 (2^-51 in CPython)
Tolerance == <<4, Pow2(Precision)>>

Asked == answer.known /\ query.fn = "eff_node"

\* C14 as stated, in exact arithmetic: one control gives e, two give
\* 1-(1-e1)(1-e2) >= max(e1,e2)
C14_Original ==
    Asked =>
        LET cs == Attached
            a == answer.value
            e1 == EffOf(cs[1], query.kind)
            e2 == EffOf(cs[2], query.kind)
        IN  /\ Len(cs) = 0 => REq(a, Zero)
            /\ Len(cs) = 1 => REq(a, e1)
            /\ Len(cs) = 2 =>
                 /\ REq(a, RSub(One, RMul(RSub(One, e1), RSub(One, e2))))
                 /\ RLe(RMax(e1, e2), a)
            /\ RLe(Zero, a) /\ RLe(a, One)

AnswerAsComputed ==
    Asked =>
        LET cs == Attached
            a == answer.value
            e1 == EffOf(cs[1], query.kind)
            e2 == EffOf(cs[2], query.kind)
        IN  /\ Len(cs) = 0 => REq(a, Zero)
            /\ Len(cs) = 1 =>
                 /\ REq(a, FSub(One, FSub(One, e1)))
                 /\ RLe(RSub(e1, Tolerance), a) /\ RLe(a, RSub(Zero, RSub(RSub(Zero, e1), Tolerance)))
                 /\ REq(FSub(One, e1), RSub(One, e1)) => REq(a, e1)
            /\ Len(cs) = 2 =>
                 /\ REq(a, FSub(One, FMul(FSub(One, e1), FSub(One, e2))))
                 /\ RLe(RSub(RMax(e1, e2), Tolerance), a)
            /\ RLe(Zero, a) /\ RLe(a, One)

\* lines 27-32 on the control list cs
Combined(cs, kind) == FSub(One, MissProduct(cs, kind, Len(cs)))

\* one more control on the node never lowers the result, for either kind
AttachStep ==
    nodes' # nodes =>
        \A kind \in Kinds :
            /\ REq(eff_node("n", kind), Combined(nodes["n"].controls, kind))
            /\ RLe(eff_node("n", kind), Combined(nodes'["n"].controls, kind))

\* C14: eff_node returns 0.0 for a node that is missing or has no controls,
\* and otherwise 1 - prod(1 - eff_i) evaluated in floating point, with eff_i
\* = 0.0 for a control without an entry: one control gives the float nearest
\* to 1 - fl(1 - e), which is e when 1 - e is a float and within the tolerance
\* of e otherwise; two controls give at least max(e1,e2) less the tolerance;
\* the result is in [0,1] and attaching a control never decreases it.
C14_CombinedEffectiveness == []AnswerAsComputed /\ [][AttachStep]_vars

C14_Witness ==
    /\ Asked
    /\ query.node_id = "n"
    /\ query.kind = "rce"
    /\ nodes["n"].controls = <<"c_tiny", "c_gone">>
    /\ RLt(answer.value, TinyEff)

(***************************************************************************)
(* Direct calls of eval_prob.                                              *)
(***************************************************************************)
RichTopology == CHOOSE topo \in Topologies : "vault" \in DOMAIN topo.nodes

Targets == {"", "open", "fw", "vault", "ghost"}
Paths == {<<>>, <<"fw">>, <<"open", "open">>, <<"fw", "dmz">>, <<"vault", "open">>}
BasePs == {<<-1, 2>>, Zero, Half, One, <<2, 1>>}
Contexts == {<<-1, 1>>, Half, One, <<2, 1>>}

InitProb ==
    /\ nodes = RichTopology.nodes
    /\ edges = RichTopology.edges
    /\ controls = RichTopology.controls
    /\ scenario \in {sc \in Scenarios : Len(sc.steps) = 0 /\ sc.timeline.max_steps = 0}
    /\ events = FreshList
    /\ logs = FreshList
    /\ tick = FreshTick
    /\ rng = FreshRng(0)
    /\ stream = <<>>
    /\ pc = "idle"
    /\ current = None
    /\ iteration = 0
    /\ ret = NoRet
    /\ exc = ""
    /\ entry = Snapshot
    /\ hist = NoHist
    /\ calls = 0
    /\ fresh = TRUE
    /\ prev = [pc |-> "idle", exc |-> "", ret |-> NoRet]
    /\ \E kind \in Kinds, target \in Targets, path \in Paths,
          base_p \in BasePs, context \in Contexts :
           query = [fn |-> "eval_prob", node_id |-> "", kind |-> kind, target |-> target,
                    path |-> path, base_p |-> base_p, context |-> context]
    /\ answer = NoAnswer

\* eval_prob(state, kind, target=target, path=path, base_p=base_p, context=context)
\* with the arguments of the query
EvalProb ==
    /\ query.fn = "eval_prob"
    /\ ~answer.known
    /\ answer' = [known |-> TRUE,
                  value |-> eval_prob(query.kind, query.target, query.path,
                                      query.base_p, query.context)]
    /\ UNCHANGED <<nodes, edges, controls, events, logs, tick, rng, stream, scenario,
                   pc, current, iteration, ret, exc, entry, hist, calls, fresh, prev,
                   query>>

NextProb == EvalProb

SpecProb == InitProb /\ [][NextProb]_vars

\* the blocking strength of a call: along a path 1 - prod(1 - eff_node), at a
\* target eff_node(target), and 0 with neither
BlockingStrength(q) ==
    IF Len(q.path) > 0 THEN FSub(One, PathProduct(q.path, q.kind, Len(q.path)))
    ELSE IF q.target # "" THEN eff_node(q.target, q.kind)
    ELSE Zero

\* C15: eval_prob returns a value in [0,1] for every kind, target or path,
\* base_p and context; the value is base_p * (1 - blocking strength) * context
\* whenever that product lies in [0,1], and the blocking strength is 0 when
\* neither target nor path is given.
C15_SuccessProbability ==
    (answer.known /\ query.fn = "eval_prob") =>
        LET x == FMul(FMul(query.base_p, FSub(One, BlockingStrength(query))),
                      query.context)
        IN  /\ RLe(Zero, answer.value) /\ RLe(answer.value, One)
            /\ (RLe(Zero, x) /\ RLe(x, One)) => REq(answer.value, x)
            /\ (Len(query.path) = 0 /\ query.target = "") =>
                   REq(PBlock(query.kind, query.target, query.path), Zero)

\* C16: from the call of run_scenario to its return the nodes, the edges and
\* the controls mapping with its effectiveness values are those of the call,
\* whatever steps ran.
C16_TopologyReadOnly ==
    pc \in {"loop", "returned", "raised"} =>
        /\ nodes = entry.nodes
        /\ edges = entry.edges
        /\ controls = entry.controls

C16_Witness ==
    /\ pc = "returned"
    /\ hist.steps = 2
    /\ hist.trail[1].action = "move_lateral"
    /\ hist.trail[2].action = "exploit"
    /\ "c_gone" \notin DOMAIN controls
    /\ "odd" \in DOMAIN nodes

\* a (goto, L) pair
IsGotoPair(v) == IsPair(v) /\ v.items[1] = PyStr("goto")

\* what following the branch value b leads to in this step: lines of the step
\* itself are `own` (the "Executing step" line and the outcome line)
Follows(b, own) ==
    /\ IsGotoPair(b) =>
         /\ pc' = "loop"
         /\ current' = b.items[2]
         /\ iteration' = iteration + 1
         /\ Len(logs') = Len(logs) + own
         /\ \A i \in DOMAIN logs' : i > Len(logs) => logs'[i].tag # "no_valid_transition"
    /\ IsEndPair(b) =>
         /\ pc' = "returned"
         /\ ret'.result = b.items[2].s
         /\ ret'.events = events'
         /\ Len(logs') = Len(logs) + own + 1
         /\ logs'[Len(logs')].tag = "end"

DrawStep ==
    (Executing("exploit") \/ Executing("move_lateral")) =>
        LET success == RLt(DrawnNow, StepProb(TheStep))
            b == Get(TheStep.params, IF success THEN "on_success" ELSE "on_fail", None)
        IN  /\ rng' = rng + 1
            /\ hist'.trail[Len(hist'.trail)].hit = success
            /\ hist'.trail[Len(hist'.trail)].draw = DrawnNow
            /\ Follows(b, 2)

\* once a call has ended nothing runs but the caller
EndedStep ==
    Ended => (pc' = "idle" /\ hist' = NoHist /\ rng' \in {rng, FreshRng(rng)})

\* C17: an exploit or move_lateral step makes one draw, succeeds iff the draw
\* is strictly below the computed probability and follows on_success on
\* success and on_fail on failure: a (goto, L) makes L the next step resolved,
\* uses one iteration and writes no "no valid transition" line; an (end, L)
\* returns L at once, with no further step and no further draw.
C17_DrawSelectsBranch == [][DrawStep]_vars /\ [][EndedStep]_vars

C17_Witness ==
    /\ pc = "returned"
    /\ hist.steps = 3
    /\ hist.trail[1].action = "exploit"
    /\ hist.trail[1].hit
    /\ IsGotoPair(Selected(hist.trail[1]))
    /\ hist.trail[2].action = "move_lateral"
    /\ ~hist.trail[2].hit
    /\ REq(hist.trail[2].draw, hist.trail[2].p)
    /\ IsGotoPair(Selected(hist.trail[2]))
    /\ hist.trail[3].idx = 2
    /\ hist.trail[3].hit
    /\ IsEndPair(Selected(hist.trail[3]))
    /\ ret.result = Selected(hist.trail[3]).items[2].s

ExfilStep ==
    Executing("exfiltrate") =>
        LET detected == RLt(DrawnNow, Get(TheStep.params, "detect_prob", Zero))
            od == Get(TheStep.params, "on_detect", None)
            os == Get(TheStep.params, "on_success", None)
        IN  /\ rng' = rng + 1
            /\ ~detected =>
                 /\ events' = events
                 /\ Follows(os, 2)
            /\ detected =>
                 /\ events' = Append(events, "ALERT.EXFIL")
                 /\ IsEndPair(od) =>
                      /\ pc' = "returned"
                      /\ ret'.result = od.items[2].s
                      /\ ret'.events = events'
                      /\ logs'[Len(logs')].tag = "end"
                 /\ IsGotoPair(od) =>
                      /\ pc' = "returned"
                      /\ ret'.result = "max_steps"
                      /\ ret'.events = events'
                      /\ current' = current
                      /\ iteration' = iteration
                      /\ Len(logs') = Len(logs) + 4
                      /\ logs'[Len(logs') - 2].tag = "exfil_detected"
                      /\ logs'[Len(logs') - 1].tag = "no_valid_transition"
                      /\ logs'[Len(logs')].tag = "max_steps_reached"

\* C18: an exfiltrate step whose draw is not below detect_prob follows
\* on_success as an exploit step does; one whose draw is below detect_prob
\* records ALERT.EXFIL and honours only an (end, L) on_detect: with on_detect
\* = (goto, L) it does not continue at L but logs "no valid transition found"
\* and returns max_steps.  The other branch is not consulted in either case.
C18_ExfiltrateBranches == [][ExfilStep]_vars

C18_Witness ==
    /\ pc = "returned"
    /\ hist.steps = 1
    /\ LastEntry.action = "exfiltrate"
    /\ LastEntry.hit
    /\ IsGotoPair(Selected(LastEntry))
    /\ StepIndex(Selected(LastEntry).items[2]) # 0
    /\ IsEndPair(Get(StepOf(LastEntry).params, "on_success", None))
    /\ ret.result = "max_steps"
    /\ events = Append(entry.events, "ALERT.EXFIL")
    /\ Logged("no_valid_transition")

\* int(c) for a digit character
DigitValue(c) == CHOOSE d \in 0..9 : DigitChar(d) = c

\* the tick a stamp of digits reads as
RECURSIVE StampValue(_)
StampValue(st) ==
    IF Len(st) = 0 THEN 0
    ELSE 10 * StampValue(SubSeq(st, 1, Len(st) - 1)) + DigitValue(st[Len(st)])

\* the log as the caller sees it: the returned list after a return
RunLogs == IF pc = "returned" THEN ret.logs ELSE logs

Stamped == { i \in DOMAIN RunLogs : RunLogs[i].stamp # <<>> }

\* the positions of the "Executing step" lines, in log order
ExecutingLines == { i \in DOMAIN RunLogs : RunLogs[i].tag = "executing" }

RecognisedSteps == { i \in DOMAIN hist.trail : hist.trail[i].action \in Recognised }

\* C19: in every state of a run on a fresh ArchState, tick <= max_steps; the
\* draws made equal the executed steps with a recognised action, one per
\* exploit, move_lateral or exfiltrate step and none for any other; the tick
\* prefixes of the log never decrease in log order, the three start-up lines
\* carry tick 0 and the k-th "Executing step" line carries tick k.
C19_FreshRunCounters ==
    (fresh /\ pc \in {"loop", "returned", "raised"}) =>
        /\ tick <= max_steps
        /\ tick = hist.steps
        /\ rng = Cardinality(RecognisedSteps)
        /\ Len(stream) >= rng
        /\ \A i \in DOMAIN hist.trail :
              hist.trail[i].drew <=> hist.trail[i].action \in Recognised
        /\ Stamped = DOMAIN RunLogs \/ Len(RunLogs) = 1
        /\ \A i \in 1..(Len(RunLogs) - 1) :
              StampValue(RunLogs[i].stamp) <= StampValue(RunLogs[i + 1].stamp)
        /\ Len(scenario.steps) > 0 =>
              /\ Len(RunLogs) >= 3
              /\ \A i \in 1..3 : RunLogs[i].stamp = <<"0", "0">>
              /\ RunLogs[1].tag = "running"
              /\ RunLogs[3].tag = "starting"
        /\ Cardinality(ExecutingLines) = hist.steps
        /\ \A i \in ExecutingLines :
              StampValue(RunLogs[i].stamp) =
                  Cardinality({ j \in ExecutingLines : j <= i })

C19_Witness ==
    /\ fresh
    /\ pc = "returned"
    /\ max_steps = 2
    /\ hist.steps = 2
    /\ tick = 2
    /\ rng = 1
    /\ hist.trail[2].action = "backdoor"
    /\ Cardinality(ExecutingLines) = 2
    /\ Len(RunLogs) = 7

\* C20: in a run of a non-empty scenario with max_steps >= 1, with or without
\* repeated step ids, the first step executed is the first step of the
\* scenario's sequence: its action and parameters are those dispatched at
\* tick 1.
C20_FirstStepRunsFirst ==
    (pc \in {"loop", "returned", "raised"} /\ hist.steps >= 1) =>
        /\ StepOf(hist.trail[1]).action = scenario.steps[1].action
        /\ StepOf(hist.trail[1]).params = scenario.steps[1].params

====
